---------------------------- MODULE Spec2Model ----------------------------
(***************************************************************************)
(* Model of the OECD revenue pipeline:                                     *)
(*   etl/transform/normalize_oecd_rev.py  (pick_col, _sanitize, normalize) *)
(*   etl/gold/build_metrics_oecd.py       (_is_total,                      *)
(*        tax_to_gdp_from_pct_or_total, composition_from_pct)              *)
(*   etl/transform/to_silver.py (SCHEMA), etl/gold/build_metrics.py        *)
(*        (build_composition)                                              *)
(*                                                                         *)
(* Tables are sequences of rows; every row carries its index label idx.    *)
(* upper(), lower(), substring and regex search are computed character by  *)
(* character on the strings the code inspects.                             *)
(*                                                                         *)
(* float64 is modelled as decimal fixed point.  In normalize a number n    *)
(* stands for n / Milli (three decimals, enough for the -0.005 threshold   *)
(* of _sanitize; values are only compared there).  In the gold derivers a  *)
(* number n stands for n / One (two decimals); a quotient or product is    *)
(* rounded to the nearest unit (ties to even), sums are exact, and NaN is  *)
(* a value of its own.  The model keeps two decimals where float64 keeps   *)
(* about fourteen, so the code's round(6) is modelled as rounding to the   *)
(* one decimal that is coarser than the arithmetic by the factor RoundGrid.*)
(***************************************************************************)
EXTENDS Integers, Sequences, FiniteSets, TLC

VARIABLES
    pct,      \* gold: the pct_gdp frame handed to both derivers
    t2g,      \* gold: outcome of tax_to_gdp_from_pct_or_total
    comp,     \* gold: outcome of composition_from_pct
    raw,      \* normalize: the bronze frame read from the CSV file
    silver,   \* normalize: outcome of normalize
    tax,      \* build_metrics: the frame read by transform_bronze_to_silver
    shares,   \* build_metrics: outcome of to_silver's schema and build_composition
    arg,      \* the argument of a helper called on its own (pick_col, _sanitize)
    ret       \* what that call returned

vars == <<pct, t2g, comp, raw, silver, tax, shares, arg, ret>>

---------------------------------------------------------------------------
(* Bounds of the model                                                     *)

\* rows of the pct_gdp frame
MaxRows == 3

\* rows of the bronze frame
MaxRawRows == 2

\* rows of the frame of the sample pipeline (to_silver, build_metrics)
MaxTaxRows == 3

---------------------------------------------------------------------------
(* Numbers                                                                 *)

\* float NaN (a missing value)
NaN == -2000000000

\* 1.0 in fixed-point units
One == 100

\* 100.0 in fixed-point units
Hundred == 100 * One

\* units per step of the grid that round(6) rounds to
RoundGrid == 10

IsNaN(x) == x = NaN

\* a / b rounded to the nearest integer, ties to even (a >= 0, b > 0)
RoundDiv(a, b) ==
    LET q == a \div b
        r == a % b
    IN  IF 2 * r < b THEN q
        ELSE IF 2 * r > b THEN q + 1
        ELSE IF q % 2 = 0 THEN q ELSE q + 1

\* Series.round(6): to the nearest grid point, ties to even (x >= 0)
Round6(x) == RoundDiv(x, RoundGrid) * RoundGrid

\* x.clip(lower=0.0); NaN stays NaN
ClipLower0(x) == IF IsNaN(x) THEN NaN ELSE IF x < 0 THEN 0 ELSE x

\* x.fillna(0.0)
FillNa0(x) == IF IsNaN(x) THEN 0 ELSE x

---------------------------------------------------------------------------
(* Strings                                                                 *)

LowerLetters == "abcdefghijklmnopqrstuvwxyz"
UpperLetters == "ABCDEFGHIJKLMNOPQRSTUVWXYZ"

\* the i-th character of s
Char(s, i) == SubSeq(s, i, i)

\* each lower-case letter's upper-case letter, and the reverse
UpperOf ==
    [c \in {Char(LowerLetters, i) : i \in 1..26} |->
        Char(UpperLetters, CHOOSE i \in 1..26 : Char(LowerLetters, i) = c)]
LowerOf ==
    [c \in {Char(UpperLetters, i) : i \in 1..26} |->
        Char(LowerLetters, CHOOSE i \in 1..26 : Char(UpperLetters, i) = c)]

UpperChar(c) == IF c \in DOMAIN UpperOf THEN UpperOf[c] ELSE c
LowerChar(c) == IF c \in DOMAIN LowerOf THEN LowerOf[c] ELSE c

\* str.upper()
RECURSIVE Upper(_)
Upper(s) == IF s = "" THEN "" ELSE UpperChar(Head(s)) \o Upper(Tail(s))

\* str.lower()
RECURSIVE Lower(_)
Lower(s) == IF s = "" THEN "" ELSE LowerChar(Head(s)) \o Lower(Tail(s))

\* the strings TOTAL_RE matches: ^(?:TAX|TOT|TOTAL(?:_NET|_GROSS|_FSSB)?|TOTALTAX|TOTAL_TAX)$
TOTAL_RE ==
    {"TAX", "TOT", "TOTAL", "TOTAL_NET", "TOTAL_GROSS", "TOTAL_FSSB",
     "TOTALTAX", "TOTAL_TAX"}

\* _is_total, for one tax code
IsTotalCode(code) == Upper(code) \in TOTAL_RE

---------------------------------------------------------------------------
(* The bounded inputs of the gold derivers                                 *)

\* area codes in their sort order
Iso3Order == <<"DEU", "NLD">>
Iso3s == {Iso3Order[i] : i \in DOMAIN Iso3Order}
Iso3Rank(a) == CHOOSE i \in DOMAIN Iso3Order : Iso3Order[i] = a

Years == {2019, 2020}

TaxCodes == {"Total", "PIT", "VAT"}

\* NaN, 0.0, 0.4, 60.0
PctValues == {NaN, 0, 40, 6000}

PctRow == [iso3 : Iso3s, year : Years, tax_code : TaxCodes, value : PctValues]

\* a frame of n rows with the index labels 1..n
Frame(f) == [i \in DOMAIN f |->
               [idx |-> i, iso3 |-> f[i].iso3, year |-> f[i].year,
                tax_code |-> f[i].tax_code, value |-> f[i].value]]

NotRun == [status |-> "none", error |-> "", columns |-> <<>>, table |-> <<>>]

\* no helper has been called
NotCalled == [status |-> "none"]

---------------------------------------------------------------------------
(* Helpers over frames                                                     *)

Key(r) == <<r.iso3, r.year>>

\* the order of sort_values(["iso3", "year"]) and of groupby's sorted keys
KeyLess(a, b) ==
    \/ Iso3Rank(a[1]) < Iso3Rank(b[1])
    \/ a[1] = b[1] /\ a[2] < b[2]

Keys(rows) == {Key(rows[i]) : i \in DOMAIN rows}

RECURSIVE SortedKeys(_)
SortedKeys(S) ==
    IF S = {} THEN <<>>
    ELSE LET m == CHOOSE k \in S : \A o \in S : o = k \/ KeyLess(k, o)
         IN  <<m>> \o SortedKeys(S \ {m})

\* the rows of one group, in frame order
GroupRows(rows, k) == SelectSeq(rows, LAMBDA r : Key(r) = k)

RECURSIVE SumSeq(_)
SumSeq(s) == IF s = <<>> THEN 0 ELSE Head(s) + SumSeq(Tail(s))


Values(rows) == [i \in DOMAIN rows |-> rows[i].value]

\* a sequence of numbers in ascending order
RECURSIVE SortedValues(_)
SortedValues(s) ==
    IF s = <<>> THEN <<>>
    ELSE LET i == CHOOSE j \in DOMAIN s : \A o \in DOMAIN s : s[j] <= s[o]
         IN  <<s[i]>> \o SortedValues(SubSeq(s, 1, i - 1) \o SubSeq(s, i + 1, Len(s)))

RECURSIVE Concat(_)
Concat(ss) == IF ss = <<>> THEN <<>> ELSE Head(ss) \o Concat(Tail(ss))

\* sort_values(["iso3", "year"]): a stable sort, rows of equal key keep their order
SortByKey(rows) ==
    LET ks == SortedKeys(Keys(rows))
    IN  Concat([i \in DOMAIN ks |-> GroupRows(rows, ks[i])])

---------------------------------------------------------------------------
(* tax_to_gdp_from_pct_or_total                                            *)

\* a call that raised, and a call that returned a frame
Failed(msg) == [status |-> "error", error |-> msg, columns |-> <<>>, table |-> <<>>]
Returned(cols, tbl) == [status |-> "ok", error |-> "", columns |-> cols, table |-> tbl]

\* a slip: the largest total of the group instead of the first
GroupFirstLargest(vals) ==
    LET ok == SelectSeq(vals, LAMBDA x : ~IsNaN(x))
    IN  IF ok = <<>> THEN NaN
        ELSE ok[CHOOSE i \in DOMAIN ok : \A j \in DOMAIN ok : ok[j] <= ok[i]]

\* GroupBy.first(): the first non-missing value of the group, NaN when it has none
GroupFirst(vals) ==
    LET ok == SelectSeq(vals, LAMBDA x : ~IsNaN(x))
    IN  IF ok = <<>> THEN NaN ELSE Head(ok)

\* GroupBy.sum(): missing values are skipped, an all-missing group sums to 0.0
GroupSum(vals) == SumSeq(SelectSeq(vals, LAMBDA x : ~IsNaN(x)))

\* a slip: the total rows not filtered out
AllRows(p) == p

Totals(p) == SelectSeq(p, LAMBDA r : IsTotalCode(r.tax_code))
Cats(p) == SelectSeq(p, LAMBDA r : ~IsTotalCode(r.tax_code))

\* groupby(["iso3", "year"], as_index=False)["value"].first(): one row per key,
\* keys ascending
FirstPerGroup(rows) ==
    LET ks == SortedKeys(Keys(rows))
    IN  [i \in DOMAIN ks |->
           [iso3 |-> ks[i][1], year |-> ks[i][2],
            tax_to_gdp |-> GroupFirst(Values(GroupRows(rows, ks[i])))]]

\* a slip: first() where sum() was meant
SumPerGroupFirst(rows) == FirstPerGroup(rows)

\* groupby(["iso3", "year"], as_index=False)["value"].sum()
SumPerGroup(rows) ==
    LET ks == SortedKeys(Keys(rows))
    IN  [i \in DOMAIN ks |->
           [iso3 |-> ks[i][1], year |-> ks[i][2],
            tax_to_gdp |-> GroupSum(Values(GroupRows(rows, ks[i])))]]

\* a slip: the total branch run over every row, the _is_total filter forgotten
T2gUnfiltered(p) ==
    IF Totals(p) # <<>>
    THEN FirstPerGroup(SortByKey(p))
    ELSE SumPerGroup(Cats(p))

\* lines 31-45: the result before the unit correction
T2gUncorrected(p) ==
    IF Totals(p) # <<>>
    THEN FirstPerGroup(SortByKey(Totals(p)))
    ELSE SumPerGroup(Cats(p))

\* twice Series.median() (missing skipped; NaN when nothing is left): the mean of
\* the two middle values of an even count need not be a whole unit
Median2(vals) ==
    LET s == SortedValues(SelectSeq(vals, LAMBDA x : ~IsNaN(x)))
        n == Len(s)
    IN  IF n = 0 THEN NaN
        ELSE IF n % 2 = 1 THEN 2 * s[(n + 1) \div 2]
        ELSE s[n \div 2] + s[n \div 2 + 1]

\* t2g["tax_to_gdp"].median() < 1 (a comparison with NaN is False)
MedianBelowOne(tbl) ==
    LET m == Median2([i \in DOMAIN tbl |-> tbl[i].tax_to_gdp])
    IN  ~IsNaN(m) /\ m < 2 * One

\* the factor of t2g["tax_to_gdp"] *= 100.0
UnitFactor == 100

Times100(x) == IF IsNaN(x) THEN NaN ELSE x * UnitFactor

\* a slip: every value below 1 scaled on its own
UnitCorrectPerRow(tbl) ==
    [i \in DOMAIN tbl |->
       IF ~IsNaN(tbl[i].tax_to_gdp) /\ tbl[i].tax_to_gdp < One
       THEN [tbl[i] EXCEPT !.tax_to_gdp = Times100(@)]
       ELSE tbl[i]]

\* lines 46-48: ratios (0.46) become percents (46), for the whole column or not at all
UnitCorrect(tbl) ==
    IF MedianBelowOne(tbl)
    THEN [i \in DOMAIN tbl |-> [tbl[i] EXCEPT !.tax_to_gdp = Times100(@)]]
    ELSE tbl

tax_to_gdp_from_pct_or_total(p) ==
    IF p = <<>> THEN Failed("No pct_gdp rows in silver")
    ELSE Returned(<<"iso3", "year", "tax_to_gdp">>, UnitCorrect(T2gUncorrected(p)))

---------------------------------------------------------------------------
(* composition_from_pct                                                    *)

\* units of a ratio such as value / totals or 100.0 / sums (1.0 = RatioOne)
RatioOne == 100000

\* step 0: to_numeric(errors="coerce").fillna(0.0).astype(float).clip(lower=0.0)
Numeric(rows) ==
    [i \in DOMAIN rows |-> [rows[i] EXCEPT !.value = ClipLower0(FillNa0(@))]]

\* groupby(["iso3", "year"])["value"].transform("sum"), at the row r
ValueTotal(rows, r) == GroupSum(Values(GroupRows(rows, Key(r))))

Shares(rows) == [i \in DOMAIN rows |-> rows[i].share_pct]

\* groupby(["iso3", "year"])["share_pct"].transform("sum") at the row r, and the
\* entry of groupby(["iso3", "year"])["share_pct"].sum() for its group
ShareTotal(rows, r) == GroupSum(Shares(GroupRows(rows, Key(r))))

\* a slip: zero-sum groups kept
KeepZeroSum(rows) == rows

\* step 1: drop the groups whose values sum to 0
DropZeroSum(rows) == SelectSeq(rows, LAMBDA r : ValueTotal(rows, r) > 0)

\* step 2: share_pct = (value / totals) * 100.0, value dropped (0.0 / 0.0 is NaN)
Share(v, total) ==
    IF IsNaN(v) \/ IsNaN(total) \/ total = 0 THEN NaN
    ELSE RoundDiv(RoundDiv(v * RatioOne, total) * Hundred, RatioOne)

Compose(rows) ==
    [i \in DOMAIN rows |->
       [idx |-> rows[i].idx, iso3 |-> rows[i].iso3, year |-> rows[i].year,
        tax_code |-> rows[i].tax_code,
        share_pct |-> Share(rows[i].value, ValueTotal(rows, rows[i]))]]

\* step 3: clip(lower=0.0).fillna(0.0)
ClipFill(rows) ==
    [i \in DOMAIN rows |-> [rows[i] EXCEPT !.share_pct = FillNa0(ClipLower0(@))]]

\* step 4: where the group's sum is positive, share_pct * (100.0 / sums)
Renormalize(rows) ==
    [i \in DOMAIN rows |->
       LET sums == ShareTotal(rows, rows[i])
       IN  IF sums > 0
           THEN [rows[i] EXCEPT !.share_pct =
                    RoundDiv(@ * RoundDiv(Hundred * RatioOne, sums), RatioOne)]
           ELSE rows[i]]

\* groupby(...)["share_pct"].idxmax(): the label of the first row holding the maximum
IdxMax(rows, k) ==
    LET g == GroupRows(rows, k)
        i == CHOOSE j \in DOMAIN g :
               /\ \A o \in DOMAIN g : g[o].share_pct <= g[j].share_pct
               /\ \A o \in 1..(j - 1) : g[o].share_pct < g[j].share_pct
    IN  g[i].idx

\* a slip: the residual taken from the sum of the whole column, groupby forgotten
ResidualFixUngrouped(rows) ==
    [i \in DOMAIN rows |->
       LET r == rows[i]
           resid == Hundred - GroupSum(Shares(rows))
           add == IF IdxMax(rows, Key(r)) = r.idx THEN resid ELSE 0
       IN  [r EXCEPT !.share_pct = FillNa0(ClipLower0(@ + add))]]

\* a slip: the residual added to every row that holds the group's maximum
ResidualFixTies(rows) ==
    [i \in DOMAIN rows |->
       LET r == rows[i]
           g == GroupRows(rows, Key(r))
           resid == Hundred - ShareTotal(rows, r)
           add == IF \A o \in DOMAIN g : g[o].share_pct <= r.share_pct THEN resid ELSE 0
       IN  [r EXCEPT !.share_pct = FillNa0(ClipLower0(@ + add))]]

\* step 5: add[idxmax] = 100.0 - gsum; share_pct = (share_pct + add).clip(0).fillna(0)
ResidualFix(rows) ==
    [i \in DOMAIN rows |->
       LET r == rows[i]
           resid == Hundred - ShareTotal(rows, r)
           add == IF IdxMax(rows, Key(r)) = r.idx THEN resid ELSE 0
       IN  [r EXCEPT !.share_pct = FillNa0(ClipLower0(@ + add))]]

\* line 100: (comp["share_pct"] >= 0).all()
NoNegatives(rows) == \A i \in DOMAIN rows : rows[i].share_pct >= 0

\* lines 101-104: every group's sum, rounded to 6 decimals, is 100.0
SumsAre100(rows) ==
    \A i \in DOMAIN rows : Round6(ShareTotal(rows, rows[i])) = Hundred

\* steps 2-5 on the rows of the positive-sum groups
Fixed(rows) == ResidualFix(Renormalize(ClipFill(Compose(rows))))

CompColumns == <<"iso3", "year", "tax_code", "share_pct">>

\* a slip: the guard on an empty category frame forgotten
CompositionUnguarded(p) ==
    LET kept == DropZeroSum(Numeric(Cats(p)))
        fixed == Fixed(kept)
    IN  IF kept = <<>> THEN Returned(CompColumns, <<>>)
        ELSE IF ~NoNegatives(fixed) THEN Failed("share_pct has negatives after fix")
        ELSE IF ~SumsAre100(fixed) THEN Failed("composition sums not 100")
        ELSE Returned(CompColumns, fixed)

composition_from_pct(p) ==
    IF Cats(p) = <<>>
    THEN Failed("No category-level pct_gdp rows to derive composition")
    ELSE LET kept == DropZeroSum(Numeric(Cats(p)))
             fixed == Fixed(kept)
         IN  IF kept = <<>> THEN Returned(CompColumns, <<>>)
             ELSE IF ~NoNegatives(fixed)
                  THEN Failed("share_pct has negatives after fix")
             ELSE IF ~SumsAre100(fixed)
                  THEN Failed("composition sums not 100")
             ELSE Returned(CompColumns, fixed)

---------------------------------------------------------------------------
(* What the derivers leave in the frame they are given                      *)

\* a slip: the category rows taken as a view of pct, .copy() forgotten
ViewOf(rows) == [rows |-> rows, shared |-> TRUE]

\* line 60, pct.loc[...].copy(): a frame of its own, sharing no data with pct
CopyOf(rows) == [rows |-> rows, shared |-> FALSE]

\* the caller's frame p after the column write  f["value"] = ...  has given the
\* rows of f the values of written: the write reaches p only through shared data
WriteBack(p, f, written) ==
    IF ~f.shared THEN p
    ELSE [i \in DOMAIN p |->
            IF \E j \in DOMAIN written : written[j].idx = p[i].idx
            THEN [p[i] EXCEPT !.value =
                     written[CHOOSE j \in DOMAIN written :
                                written[j].idx = p[i].idx].value]
            ELSE p[i]]

\* composition_from_pct assigns columns of cats (lines 67-69) and of comp, which
\* is built from cats (lines 81-97); it raises at line 62 before any write
PctAfterComposition(p) ==
    IF Cats(p) = <<>> THEN p
    ELSE WriteBack(p, CopyOf(Cats(p)), Numeric(Cats(p)))

\* tax_to_gdp_from_pct_or_total writes in place once, line 48, into t2g, the
\* frame groupby built; totals and cats are boolean selections it only reads
PctAfterTaxToGdp(p) == p

---------------------------------------------------------------------------
(* normalize_oecd_rev.py: strings                                          *)

\* s contains sub (Python's  sub in s)
Contains(s, sub) ==
    \E i \in 1..(Len(s) - Len(sub) + 1) : SubSeq(s, i, i + Len(sub) - 1) = sub

Digits == "0123456789"
DigitSet == {Char(Digits, i) : i \in 1..10}

\* the characters \w matches
WordChars == {Char(LowerLetters, i) : i \in 1..26} \cup
             {Char(UpperLetters, i) : i \in 1..26} \cup DigitSet \cup {"_"}

\* re.search(r"\b" + lit + r"\b", s) for a literal that starts and ends with a
\* word character
WordSearch(s, lit) ==
    \E i \in 1..(Len(s) - Len(lit) + 1) :
        /\ SubSeq(s, i, i + Len(lit) - 1) = lit
        /\ i = 1 \/ Char(s, i - 1) \notin WordChars
        /\ i + Len(lit) - 1 = Len(s) \/ Char(s, i + Len(lit)) \notin WordChars

\* str.strip() of blanks
RECURSIVE Strip(_)
Strip(s) ==
    IF s = "" THEN ""
    ELSE IF Head(s) = " " THEN Strip(Tail(s))
    ELSE IF Char(s, Len(s)) = " " THEN Strip(SubSeq(s, 1, Len(s) - 1))
    ELSE s

\* the characters of the model's strings in code-point order
CharOrder == " %0123456789ABCDEFGHIJKLMNOPQRSTUVWXYZ_abcdefghijklmnopqrstuvwxyz"
CharRank == [c \in {Char(CharOrder, i) : i \in 1..Len(CharOrder)} |->
                CHOOSE i \in 1..Len(CharOrder) : Char(CharOrder, i) = c]

\* a < b as Python compares strings
RECURSIVE StrLess(_, _)
StrLess(a, b) ==
    IF b = "" THEN FALSE
    ELSE IF a = "" THEN TRUE
    ELSE IF Head(a) = Head(b) THEN StrLess(Tail(a), Tail(b))
    ELSE CharRank[Head(a)] < CharRank[Head(b)]

IsDigits(s) == \A i \in 1..Len(s) : Char(s, i) \in DigitSet

\* int(s) for a string of digits
RECURSIVE ParseInt(_)
ParseInt(s) ==
    IF s = "" THEN 0
    ELSE 10 * ParseInt(SubSeq(s, 1, Len(s) - 1))
         + (CHOOSE d \in 0..9 : Char(Digits, d + 1) = Char(s, Len(s)))

Min(S) == CHOOSE x \in S : \A y \in S : x <= y

---------------------------------------------------------------------------
(* pick_col                                                                *)

\* pick_col's None (no column of a frame read from CSV has the empty name)
None == ""

\* the keys of low = {c.lower(): c for c in df.columns}, in insertion order
RECURSIVE LowKeys(_)
LowKeys(cols) ==
    IF cols = <<>> THEN <<>>
    ELSE LET rest == LowKeys(SubSeq(cols, 1, Len(cols) - 1))
             k    == Lower(cols[Len(cols)])
         IN  IF \E i \in DOMAIN rest : rest[i] = k THEN rest ELSE Append(rest, k)

\* low[k]: the last column whose lower-cased name is k
LowValue(cols, k) ==
    cols[CHOOSE i \in DOMAIN cols :
           /\ Lower(cols[i]) = k
           /\ \A j \in (i + 1)..Len(cols) : Lower(cols[j]) # k]

\* a slip: one loop, each candidate tried exactly and then as a substring
PickColInterleaved(cols, cands) ==
    LET keys == LowKeys(cols)
        low  == [i \in DOMAIN cands |-> Lower(cands[i])]
        hit  == {i \in DOMAIN cands : \E j \in DOMAIN keys : Contains(keys[j], low[i])}
    IN  IF hit = {} THEN None
        ELSE IF \E j \in DOMAIN keys : keys[j] = low[Min(hit)]
             THEN LowValue(cols, low[Min(hit)])
        ELSE LowValue(cols, keys[Min({j \in DOMAIN keys :
                                        Contains(keys[j], low[Min(hit)])})])

pick_col(cols, cands) ==
    LET keys  == LowKeys(cols)
        low   == [i \in DOMAIN cands |-> Lower(cands[i])]
        exact == {i \in DOMAIN cands : \E j \in DOMAIN keys : keys[j] = low[i]}
        part  == {i \in DOMAIN cands : \E j \in DOMAIN keys : Contains(keys[j], low[i])}
    IN  IF exact # {} THEN LowValue(cols, low[Min(exact)])
        ELSE IF part # {}
             THEN LowValue(cols, keys[Min({j \in DOMAIN keys :
                                             Contains(keys[j], low[Min(part)])})])
        ELSE None

---------------------------------------------------------------------------
(* normalize: column resolution                                            *)

AreaCodeCands == <<"REF_AREA", "REF_AREA_CODE", "REF_AREA.ID", "Reference area code">>
AreaNameCands == <<"Reference area", "REF_AREA_LABEL", "Country", "Country name">>
RevCodeCands ==
    <<"REVENUE_CODE", "Revenue code", "STANDARD_REVENUE", "Revenue category", "REVENUE">>
TimeCands == <<"TIME_PERIOD", "Time period", "time", "year", "Year">>
ValueCands == <<"OBS_VALUE", "Observation value", "value", "Value">>
UnitCodeCands == <<"UNIT_MEASURE", "UNIT_MEASURE_CODE", "Unit of measure code">>
UnitLabelCands == <<"Unit of measure", "UNIT_MEASURE_LABEL", "Unit label", "Unit">>
MeasCodeCands == <<"MEASURE", "MEASURE_CODE", "Reference measure code">>
MeasLabelCands == <<"Measure", "Reference measure", "MEASURE_LABEL">>

\* lines 54-64
Resolve(cols) ==
    [area_code |-> pick_col(cols, AreaCodeCands),
     area_name |-> pick_col(cols, AreaNameCands),
     rev_code  |-> pick_col(cols, RevCodeCands),
     time_col  |-> pick_col(cols, TimeCands),
     val_col   |-> pick_col(cols, ValueCands),
     unit_code |-> pick_col(cols, UnitCodeCands),
     unit_lab  |-> pick_col(cols, UnitLabelCands),
     meas_code |-> pick_col(cols, MeasCodeCands),
     meas_lab  |-> pick_col(cols, MeasLabelCands)]

\* the columns a bounded bronze frame may have, in file order
ColumnUniverse ==
    <<"REF_AREA", "Country_name", "REVENUE_CODE", "TIME_PERIOD", "obs_value",
      "MEASURE", "Unit">>

\* the columns numbered in cs, in file order
RECURSIVE ColumnsOf(_)
ColumnsOf(cs) ==
    IF cs = {} THEN <<>>
    ELSE ColumnsOf(cs \ {CHOOSE m \in cs : \A o \in cs : o <= m}) \o
         <<ColumnUniverse[CHOOSE m \in cs : \A o \in cs : o <= m]>>

\* the header lines of the bounded bronze frames
Headers == {ColumnsOf(cs) : cs \in (SUBSET DOMAIN ColumnUniverse) \ {{}}}

\* Resolve, computed once per header line
Resolved == [cols \in Headers |-> Resolve(cols)]

\* Python's  a or b  on column names
Or(a, b) == IF a # None THEN a ELSE b

\* a slip: the area name is not accepted in place of the area code
NeedCodeOnly(res) ==
    << <<"area", res.area_code>>, <<"revenue_code", res.rev_code>>,
       <<"time", res.time_col>>, <<"value", res.val_col>> >>

\* lines 66-71
Need(res) ==
    << <<"area", Or(res.area_code, res.area_name)>>, <<"revenue_code", res.rev_code>>,
       <<"time", res.time_col>>, <<"value", res.val_col>> >>

\* line 72: missing = [n for n, c in need if c is None]
MissingOf(res) ==
    LET m == SelectSeq(Need(res), LAMBDA nc : nc[2] = None)
    IN  [i \in DOMAIN m |-> m[i][1]]

\* lines 76-82 (the optional columns are read through Resolve)
Keep(res) ==
    [iso3     |-> Or(res.area_code, res.area_name),
     country  |-> Or(res.area_name, res.area_code),
     tax_code |-> res.rev_code,
     year     |-> res.time_col,
     value    |-> res.val_col]

---------------------------------------------------------------------------
(* normalize: rows                                                         *)

\* 1.0 in the fixed-point units of normalize
Milli == 1000

\* the dtype read_csv infers for a column of year cells ("" is an empty field)
YearDtype(rows, col) ==
    IF \A i \in DOMAIN rows : rows[i][col] # "" /\ IsDigits(rows[i][col]) THEN "int64"
    ELSE IF \A i \in DOMAIN rows : IsDigits(rows[i][col]) THEN "float64"
    ELSE "object"

\* sub["year"].astype(str) for one cell
YearStr(dtype, cell) ==
    IF cell = "" THEN "nan"
    ELSE IF dtype = "float64" THEN cell \o ".0"
    ELSE cell

\* str.match(r"^\d{4}$")
IsYear(s) == Len(s) = 4 /\ IsDigits(s)

\* lines 92-99: the projected frame; idx is the row's label in df (0, 1, ...)
Sub(f, res) ==
    LET keep  == Keep(res)
        dtype == YearDtype(f.rows, keep.year)
        all   == [i \in DOMAIN f.rows |->
                    LET r == f.rows[i]
                    IN  [idx      |-> i - 1,
                         iso3     |-> Upper(r[keep.iso3]),
                         country  |-> r[keep.country],
                         tax_code |-> r[keep.tax_code],
                         year     |-> YearStr(dtype, r[keep.year]),
                         value    |-> r[keep.value],
                         src      |-> r]]
        kept  == SelectSeq(all, LAMBDA r : IsYear(r.year))
    IN  [i \in DOMAIN kept |-> [kept[i] EXCEPT !.year = ParseInt(@)]]

Index(rows) == {rows[i].idx : i \in DOMAIN rows}

\* _lower(sub[name]) when the column was resolved, else pd.Series([""] * len(sub)),
\* whose labels are 0 .. len(sub) - 1 whatever the labels of sub are
TextSeries(sub, col) ==
    IF col # None
    THEN [l \in Index(sub) |->
            LET r == sub[CHOOSE i \in DOMAIN sub : sub[i].idx = l].src
            IN  Lower(IF r[col] = "" THEN "nan" ELSE r[col])]
    ELSE [l \in 0..(Len(sub) - 1) |-> ""]

\* \bpc[_]?gdp\b|\bpct[_]?gdp\b|\bpcgdp\b
CodeIsGdp(s) == \E lit \in {"pc_gdp", "pcgdp", "pct_gdp", "pctgdp"} : WordSearch(s, lit)

\* (?:percent|percentage|%)  and  \bgdp\b
LabelIsGdp(s) ==
    /\ Contains(s, "percent") \/ Contains(s, "percentage") \/ Contains(s, "%")
    /\ WordSearch(s, "gdp")

CodeIsShare(s) == Contains(s, "share")

\* \bshare\b  and  \btotal\b
LabelIsShare(s) == WordSearch(s, "share") /\ WordSearch(s, "total")

\* a | b of two boolean Series.  With equal indexes it is the row-wise or.
\* Otherwise pandas aligns both on the union of the labels first: a label the
\* right operand lacks counts as False there, and a label the left operand lacks
\* yields False whatever the right operand holds.
SeriesOr(a, b) ==
    IF DOMAIN a = DOMAIN b THEN [l \in DOMAIN a |-> a[l] \/ b[l]]
    ELSE [l \in DOMAIN a \cup DOMAIN b |->
            IF l \notin DOMAIN a THEN FALSE
            ELSE IF l \notin DOMAIN b THEN a[l]
            ELSE a[l] \/ b[l]]

\* combo = (ml.fillna("") + " " + ul.fillna("")).str.strip() tested by str.contains
\* (na=False): a label that one of ml, ul lacks holds a missing combo
ComboGdp(ml, ul) ==
    [l \in DOMAIN ml \cup DOMAIN ul |->
        /\ l \in DOMAIN ml /\ l \in DOMAIN ul
        /\ LabelIsGdp(Strip(ml[l] \o " " \o ul[l]))]

ComboShare(ml, ul) ==
    [l \in DOMAIN ml \cup DOMAIN ul |->
        /\ l \in DOMAIN ml /\ l \in DOMAIN ul
        /\ LabelIsShare(Strip(ml[l] \o " " \o ul[l]))]

\* lines 110-118
IsGdpMask(sub, res) ==
    LET mc == TextSeries(sub, res.meas_code)
        uc == TextSeries(sub, res.unit_code)
        ml == TextSeries(sub, res.meas_lab)
        ul == TextSeries(sub, res.unit_lab)
    IN  SeriesOr(SeriesOr([l \in DOMAIN mc |-> CodeIsGdp(mc[l])],
                          [l \in DOMAIN uc |-> CodeIsGdp(uc[l])]),
                 ComboGdp(ml, ul))

\* lines 120-128
IsShareMask(sub, res) ==
    LET mc == TextSeries(sub, res.meas_code)
        uc == TextSeries(sub, res.unit_code)
        ml == TextSeries(sub, res.meas_lab)
        ul == TextSeries(sub, res.unit_lab)
    IN  SeriesOr(SeriesOr([l \in DOMAIN mc |-> CodeIsShare(mc[l])],
                          [l \in DOMAIN uc |-> CodeIsShare(uc[l])]),
                 ComboShare(ml, ul))

\* sub[mask] raises IndexingError when the mask lacks a label of sub
Unalignable(sub, mask) == ~(Index(sub) \subseteq DOMAIN mask)

\* sub[mask].copy()
Masked(sub, mask) == SelectSeq(sub, LAMBDA r : mask[r.idx])

---------------------------------------------------------------------------
(* _sanitize                                                               *)

\* -0.005
TinyBound == -5

\* a slip: the lower end of the tiny range left open
IsTinyOpen(v) == ~IsNaN(v) /\ TinyBound < v /\ v < 0

IsTiny(v) == ~IsNaN(v) /\ TinyBound <= v /\ v < 0
IsNeg(v) == ~IsNaN(v) /\ v < TinyBound

Count(rows, P(_)) == Len(SelectSeq(rows, P))

sanitize(df) ==
    IF df = <<>> THEN [df |-> df, tiny |-> 0, dropped |-> 0]
    ELSE [df      |-> SelectSeq([i \in DOMAIN df |->
                                   IF IsTiny(df[i].value)
                                   THEN [df[i] EXCEPT !.value = 0]
                                   ELSE df[i]],
                                LAMBDA r : ~IsNeg(r.value)),
          tiny    |-> Len(SelectSeq(df, LAMBDA r : IsTiny(r.value))),
          dropped |-> Len(SelectSeq(df, LAMBDA r : IsNeg(r.value)))]

---------------------------------------------------------------------------
(* normalize: validation and the silver frame                              *)

\* Check.ge(1900) on year
MinYear == 1900

\* Check.le(100) on value
MaxValue == 100 * Milli

\* a slip: the upper bound of value left out of the schema
SchemaWithoutMax(df) ==
    \A i \in DOMAIN df :
        /\ df[i].year >= MinYear
        /\ IsNaN(df[i].value) \/ 0 <= df[i].value

\* lines 143-152: SCHEMA.validate passes (value is nullable)
SchemaAccepts(df) ==
    \A i \in DOMAIN df :
        /\ df[i].year >= MinYear
        /\ IsNaN(df[i].value) \/ (0 <= df[i].value /\ df[i].value <= MaxValue)

\* the order of sort_values(["iso3", "year", "metric", "tax_code"])
SilverLess(a, b) ==
    \/ StrLess(a.iso3, b.iso3)
    \/ a.iso3 = b.iso3 /\ a.year < b.year
    \/ a.iso3 = b.iso3 /\ a.year = b.year /\ StrLess(a.metric, b.metric)
    \/ /\ a.iso3 = b.iso3 /\ a.year = b.year /\ a.metric = b.metric
       /\ StrLess(a.tax_code, b.tax_code)

\* a stable sort: of the rows that no row precedes, the first comes first
RECURSIVE SortSilver(_)
SortSilver(rows) ==
    IF rows = <<>> THEN <<>>
    ELSE LET i == Min({j \in DOMAIN rows :
                         \A o \in DOMAIN rows : ~SilverLess(rows[o], rows[j])})
         IN  <<rows[i]>> \o
             SortSilver(SubSeq(rows, 1, i - 1) \o SubSeq(rows, i + 1, Len(rows)))

\* df.assign(metric=m); raw_idx keeps the label the row had in df, which the code
\* drops with reset_index(drop=True)
WithMetric(df, m) ==
    [i \in DOMAIN df |->
       [raw_idx |-> df[i].idx, iso3 |-> df[i].iso3, country |-> df[i].country,
        tax_code |-> df[i].tax_code, year |-> df[i].year, value |-> df[i].value,
        metric |-> m]]

NoDebug == [rows_total |-> 0, rows_gdp |-> 0, rows_share |-> 0,
            gdp_tiny_clamped |-> 0, gdp_dropped_neg |-> 0,
            share_tiny_clamped |-> 0, share_dropped_neg |-> 0]

NotNormalized ==
    [status |-> "none", error |-> "", missing |-> <<>>, have |-> <<>>,
     table |-> <<>>, debug |-> NoDebug]

Raised(kind, missing, have) ==
    [status |-> "error", error |-> kind, missing |-> missing, have |-> have,
     table |-> <<>>, debug |-> NoDebug]

normalize(f) ==
    LET res == Resolved[f.columns]
    IN  IF MissingOf(res) # <<>> THEN Raised("KeyError", MissingOf(res), f.columns)
        ELSE
        LET sub     == Sub(f, res)
            is_gdp   == IsGdpMask(sub, res)
            is_share == IsShareMask(sub, res)
        IN  IF Unalignable(sub, is_gdp) \/ Unalignable(sub, is_share)
            THEN Raised("IndexingError", <<>>, <<>>)
            ELSE
            LET gdp   == sanitize(Masked(sub, is_gdp))
                share == sanitize(Masked(sub, is_share))
            IN  IF ~SchemaAccepts(gdp.df) \/ ~SchemaAccepts(share.df)
                THEN Raised("SchemaErrors", <<>>, <<>>)
                ELSE [status  |-> "ok", error |-> "", missing |-> <<>>, have |-> <<>>,
                      table   |-> SortSilver(WithMetric(gdp.df, "pct_gdp") \o
                                             WithMetric(share.df, "share_total")),
                      debug   |-> [rows_total |-> Len(sub),
                                   rows_gdp |-> Len(gdp.df),
                                   rows_share |-> Len(share.df),
                                   gdp_tiny_clamped |-> gdp.tiny,
                                   gdp_dropped_neg |-> gdp.dropped,
                                   share_tiny_clamped |-> share.tiny,
                                   share_dropped_neg |-> share.dropped]]

---------------------------------------------------------------------------
(* The bounded bronze frames                                               *)

\* the cells a column may hold; a column the frame lacks holds a filler
CellsOf(col, present) ==
    IF ~present THEN {""}
    ELSE CASE col = "REF_AREA"     -> {"nld"}
           [] col = "Country_name" -> {"Netherlands"}
           [] col = "REVENUE_CODE" -> {"PIT", "VAT"}
           [] col = "TIME_PERIOD"  -> {"2019", "Q1", ""}
           [] col = "MEASURE"      -> {"PC_GDP", "USD"}
           [] col = "Unit"         -> {"Share of total", "% of GDP"}

\* obs_value after to_numeric(errors="coerce"): unparsable or empty, -1.0, -0.003,
\* 0.4, 150.0
ValueCells(present) == IF present THEN {NaN, -1000, -3, 400, 150000} ELSE {NaN}

RawRows(cs) ==
    [REF_AREA     : CellsOf("REF_AREA", 1 \in cs),
     Country_name : CellsOf("Country_name", 2 \in cs),
     REVENUE_CODE : CellsOf("REVENUE_CODE", 3 \in cs),
     TIME_PERIOD  : CellsOf("TIME_PERIOD", 4 \in cs),
     obs_value    : ValueCells(5 \in cs),
     MEASURE      : CellsOf("MEASURE", 6 \in cs),
     Unit         : CellsOf("Unit", 7 \in cs)]

NoFrame == [columns |-> <<>>, rows |-> <<>>]

InitNormalize ==
    /\ \E cs \in (SUBSET DOMAIN ColumnUniverse) \ {{}} :
       \E n \in 0..MaxRawRows :
       \E rows \in [1..n -> RawRows(cs)] :
           raw = [columns |-> ColumnsOf(cs), rows |-> rows]
    /\ silver = NotNormalized
    /\ pct = <<>>
    /\ t2g = NotRun
    /\ comp = NotRun
    /\ tax = <<>>
    /\ shares = NotRun
    /\ arg = <<>>
    /\ ret = NotCalled

RunNormalize ==
    /\ silver = NotNormalized
    /\ silver' = normalize(raw)
    /\ UNCHANGED <<raw, pct, t2g, comp, tax, shares, arg, ret>>

NextNormalize == RunNormalize

SpecNormalize == InitNormalize /\ [][NextNormalize]_vars

---------------------------------------------------------------------------
(* pick_col and _sanitize called on their own                              *)

\* columns of a frame and candidates of a call
MaxNames == 3

ColumnNames == {"TIME_PERIOD", "Time", "Year", "year", "obs_value"}

CandidateNames == {"time", "Year", "value", "OBS_VALUE", "REVENUE"}

\* the sequences over S of at most n names
SeqsUpTo(S, n) == UNION {[1..m -> S] : m \in 0..n}

\* a frame has no two columns of one name
Distinct(q) == \A i, j \in DOMAIN q : i # j => q[i] # q[j]

InitPickCol ==
    /\ \E cols \in {q \in SeqsUpTo(ColumnNames, MaxNames) : Distinct(q)} :
       \E cands \in SeqsUpTo(CandidateNames, MaxNames) :
           arg = [cols |-> cols, cands |-> cands]
    /\ ret = NotCalled
    /\ pct = <<>>
    /\ t2g = NotRun
    /\ comp = NotRun
    /\ raw = NoFrame
    /\ silver = NotNormalized
    /\ tax = <<>>
    /\ shares = NotRun

RunPickCol ==
    /\ ret = NotCalled
    /\ ret' = [status |-> "ok", value |-> pick_col(arg.cols, arg.cands)]
    /\ UNCHANGED <<arg, pct, t2g, comp, raw, silver, tax, shares>>

NextPickCol == RunPickCol

SpecPickCol == InitPickCol /\ [][NextPickCol]_vars

\* rows of the frame handed to _sanitize
MaxSanitizeRows == 3

\* NaN, -1.0, -0.006, -0.005, -0.003, 0.0, 0.4
SanitizeValues == {NaN, -Milli, TinyBound - 1, TinyBound, -3, 0, 400}

InitSanitize ==
    /\ \E n \in 0..MaxSanitizeRows : \E f \in [1..n -> SanitizeValues] :
           arg = [i \in 1..n |-> [idx |-> i - 1, value |-> f[i]]]
    /\ ret = NotCalled
    /\ pct = <<>>
    /\ t2g = NotRun
    /\ comp = NotRun
    /\ raw = NoFrame
    /\ silver = NotNormalized
    /\ tax = <<>>
    /\ shares = NotRun

RunSanitize ==
    /\ ret = NotCalled
    /\ ret' = [status |-> "ok", value |-> sanitize(arg)]
    /\ UNCHANGED <<arg, pct, t2g, comp, raw, silver, tax, shares>>

NextSanitize == RunSanitize

SpecSanitize == InitSanitize /\ [][NextSanitize]_vars

---------------------------------------------------------------------------
(* The sample pipeline: to_silver.py's SCHEMA and build_metrics.build_composition *)

CountryOf == [c \in {"NLD", "DEU"} |-> IF c = "NLD" THEN "Netherlands" ELSE "Germany"]

\* 0.0, 5.0, 10.0 and 150.0
TaxValues == {0, 5 * One, 10 * One, 150 * One}

TaxRow ==
    {[country |-> CountryOf[c], iso3 |-> c, year |-> y, tax_type |-> t,
      value_pct_gdp |-> v] :
        c \in DOMAIN CountryOf, y \in {2000, 2001}, t \in {"PIT", "VAT"},
        v \in TaxValues}

\* to_silver.py lines 12-27: SCHEMA accepts the frame
SilverSchema(df) ==
    \A i \in DOMAIN df :
        /\ 2 <= Len(df[i].country) /\ Len(df[i].country) <= 64
        /\ Len(df[i].iso3) = 3
        /\ 1900 <= df[i].year /\ df[i].year <= 2100
        /\ df[i].tax_type \in {"PIT", "VAT"}
        /\ ~IsNaN(df[i].value_pct_gdp)
        /\ 0 <= df[i].value_pct_gdp /\ df[i].value_pct_gdp <= Hundred

\* the order of sort_values(["iso3", "year", "tax_type"]), to_silver.py line 36
TaxLess(a, b) ==
    \/ StrLess(a.iso3, b.iso3)
    \/ a.iso3 = b.iso3 /\ a.year < b.year
    \/ a.iso3 = b.iso3 /\ a.year = b.year /\ StrLess(a.tax_type, b.tax_type)

RECURSIVE SortTax(_)
SortTax(rows) ==
    IF rows = <<>> THEN <<>>
    ELSE LET i == Min({j \in DOMAIN rows :
                         \A o \in DOMAIN rows : ~TaxLess(rows[o], rows[j])})
         IN  <<rows[i]>> \o
             SortTax(SubSeq(rows, 1, i - 1) \o SubSeq(rows, i + 1, Len(rows)))

\* the group of groupby(["country", "iso3", "year"])
TaxKey(r) == <<r.country, r.iso3, r.year>>

TaxGroup(rows, k) == SelectSeq(rows, LAMBDA r : TaxKey(r) = k)

\* line 25: groupby(...)["value_pct_gdp"].transform("sum") at the row r
TaxTotal(rows, r) ==
    LET g == TaxGroup(rows, TaxKey(r))
    IN  GroupSum([i \in DOMAIN g |-> g[i].value_pct_gdp])

\* lines 26-27: share_pct = (value_pct_gdp / sums) * 100.0
WithShares(rows) ==
    [i \in DOMAIN rows |->
       [country |-> rows[i].country, iso3 |-> rows[i].iso3, year |-> rows[i].year,
        tax_type |-> rows[i].tax_type,
        share_pct |-> Share(rows[i].value_pct_gdp, TaxTotal(rows, rows[i]))]]

\* Series.round(3); the model's arithmetic has two decimals, so this grid, like
\* that of round(6), is the one decimal coarser than the arithmetic
Round3(x) == RoundDiv(x, RoundGrid) * RoundGrid

\* line 29: the entry of groupby(...)["share_pct"].sum().round(3) for the group of r
ShareCheck(rows, r) ==
    LET g == TaxGroup(rows, TaxKey(r))
    IN  Round3(GroupSum([i \in DOMAIN g |-> g[i].share_pct]))

\* the tolerance 0.01 of line 30, in steps of the round(3) grid
ToleranceSteps == 10

Abs(x) == IF x < 0 THEN -x ELSE x

\* build_metrics.py lines 24-31
build_composition(df) ==
    LET c == WithShares(df)
    IN  IF \A i \in DOMAIN c :
              Abs(ShareCheck(c, c[i]) - Hundred) <= ToleranceSteps * RoundGrid
        THEN Returned(<<"country", "iso3", "year", "tax_type", "share_pct">>, c)
        ELSE Failed("composition shares do not sum to 100%")

InitMetrics ==
    /\ \E n \in 0..MaxTaxRows : tax \in [1..n -> TaxRow]
    /\ shares = NotRun
    /\ pct = <<>>
    /\ t2g = NotRun
    /\ comp = NotRun
    /\ raw = NoFrame
    /\ silver = NotNormalized
    /\ arg = <<>>
    /\ ret = NotCalled

\* transform_bronze_to_silver validates and sorts the frame; build_metrics.main
\* hands the frame it wrote to build_composition
RunBuildComposition ==
    /\ shares = NotRun
    /\ shares' = IF SilverSchema(tax) THEN build_composition(SortTax(tax))
                  ELSE Failed("SchemaErrors")
    /\ UNCHANGED <<tax, pct, t2g, comp, raw, silver, arg, ret>>

NextMetrics == RunBuildComposition

SpecMetrics == InitMetrics /\ [][NextMetrics]_vars

---------------------------------------------------------------------------
(* The derivers run over one pct_gdp frame, in either order                *)

Init ==
    /\ \E n \in 0..MaxRows : \E f \in [1..n -> PctRow] : pct = Frame(f)
    /\ t2g = NotRun
    /\ comp = NotRun
    /\ raw = NoFrame
    /\ silver = NotNormalized
    /\ tax = <<>>
    /\ shares = NotRun
    /\ arg = <<>>
    /\ ret = NotCalled

RunTaxToGdp ==
    /\ t2g = NotRun
    /\ t2g' = tax_to_gdp_from_pct_or_total(pct)
    /\ pct' = PctAfterTaxToGdp(pct)
    /\ UNCHANGED <<comp, raw, silver, tax, shares, arg, ret>>

RunComposition ==
    /\ comp = NotRun
    /\ comp' = composition_from_pct(pct)
    /\ pct' = PctAfterComposition(pct)
    /\ UNCHANGED <<t2g, raw, silver, tax, shares, arg, ret>>

Next == RunTaxToGdp \/ RunComposition

Spec == Init /\ [][Next]_vars

---------------------------------------------------------------------------
(* composition_from_pct alone, over frames that also hold negative values   *)

\* NaN, -1.0, 0.0, 0.4, 60.0
SignedValues == PctValues \cup {-One}

SignedRow == [iso3 : {"NLD"}, year : Years, tax_code : TaxCodes, value : SignedValues]

InitComposition ==
    /\ \E n \in 0..MaxRows : \E f \in [1..n -> SignedRow] : pct = Frame(f)
    /\ t2g = NotRun
    /\ comp = NotRun
    /\ raw = NoFrame
    /\ silver = NotNormalized
    /\ tax = <<>>
    /\ shares = NotRun
    /\ arg = <<>>
    /\ ret = NotCalled

NextComposition == RunComposition

SpecComposition == InitComposition /\ [][NextComposition]_vars

---------------------------------------------------------------------------
(* Properties of the gold derivers                                         *)

\* the share_pct values of the rows of tbl in group k, summed
ShareSum(tbl, k) ==
    LET g == GroupRows(tbl, k)
    IN  SumSeq([i \in DOMAIN g |-> g[i].share_pct])

\* the category rows of group k all have the value 0 once NaN counts as 0 and
\* negatives are clamped
ZeroSumGroup(p, k) ==
    \A i \in DOMAIN p :
        (Key(p[i]) = k /\ ~IsTotalCode(p[i].tax_code)) =>
            (IsNaN(p[i].value) \/ p[i].value <= 0)

CatKeys(p) == Keys(Cats(p))

\* C1: whenever composition_from_pct returns a table, every group present in it
\* has share_pct values summing to 100.0 at 6 decimals, every group of the input
\* is present with that sum or absent, and the summation assertion never fires.
C1_CompositionSumsTo100 ==
    /\ comp.error # "composition sums not 100"
    /\ comp.status = "ok" =>
         /\ Keys(comp.table) \subseteq Keys(pct)
         /\ \A k \in Keys(pct) :
               \/ GroupRows(comp.table, k) = <<>>
               \/ Round6(ShareSum(comp.table, k)) = Hundred

\* a returned table holding a group of several rows, with an input group absent
C1_Witness ==
    /\ comp.status = "ok"
    /\ \E k \in Keys(pct) : Len(GroupRows(comp.table, k)) >= 2
    /\ \E k \in Keys(pct) : GroupRows(comp.table, k) = <<>>

\* every input value is a number in [0, 100]
ValuesInRange(p) ==
    \A i \in DOMAIN p : ~IsNaN(p[i].value) /\ 0 <= p[i].value /\ p[i].value <= Hundred

InRange(x) == ~IsNaN(x) /\ 0 <= x /\ x <= Hundred

\* C2: for every canonical table whose values lie in [0, 100], every tax_to_gdp
\* value and every share_pct value of the outputs lies in [0, 100].
C2_OutputsWithinBounds ==
    ValuesInRange(pct) =>
        /\ t2g.status = "ok" =>
             \A i \in DOMAIN t2g.table : InRange(t2g.table[i].tax_to_gdp)
        /\ comp.status = "ok" =>
             \A i \in DOMAIN comp.table : InRange(comp.table[i].share_pct)

\* the row of the tax-to-GDP output for group k
T2gRows(k) == SelectSeq(t2g.table, LAMBDA r : Key(r) = k)

\* the total rows of group k in the order of the sort on (iso3, year)
SortedTotals(k) == GroupRows(SortByKey(Totals(pct)), k)

\* x as the output shows it: times 100 when the unit correction fired
AsReported(x) == IF MedianBelowOne(T2gUncorrected(pct)) THEN Times100(x) ELSE x

\* C3 (as claimed): for every group with a total row the output value is the
\* value of the first total row in the sorted order, scaled by 100 only if the
\* unit correction fires.
C3_FirstTotalRow ==
    t2g.status = "ok" =>
        \A k \in Keys(Totals(pct)) :
            /\ Len(T2gRows(k)) = 1
            /\ T2gRows(k)[1].tax_to_gdp = AsReported(SortedTotals(k)[1].value)

\* the values of s up to the first that is not missing
RECURSIVE FirstPresent(_)
FirstPresent(s) ==
    IF s = <<>> THEN NaN
    ELSE IF ~IsNaN(Head(s)) THEN Head(s) ELSE FirstPresent(Tail(s))

\* C3 (amended): for every group with a total row the output value is the value
\* of the first total row, in the sorted order, whose value is not missing (and
\* missing when all are), scaled by 100 only if the unit correction fires; it is
\* not the category sum and not picked by magnitude.
C3_FirstPresentTotalRow ==
    t2g.status = "ok" =>
        \A k \in Keys(Totals(pct)) :
            /\ Len(T2gRows(k)) = 1
            /\ T2gRows(k)[1].tax_to_gdp = AsReported(FirstPresent(Values(SortedTotals(k))))

\* a group whose first total is missing and whose second is 0.4, with a category
\* row of 60.0: the output is 0.4, corrected to 40.0
C3_Witness ==
    /\ t2g.status = "ok"
    /\ \E k \in Keys(Totals(pct)) :
          /\ Len(SortedTotals(k)) = 2
          /\ IsNaN(SortedTotals(k)[1].value)
          /\ SortedTotals(k)[2].value = 40
          /\ \E i \in DOMAIN pct :
                /\ Key(pct[i]) = k
                /\ ~IsTotalCode(pct[i].tax_code)
                /\ pct[i].value = 6000
          /\ T2gRows(k)[1].tax_to_gdp = 40 * UnitFactor

T2gKeys == {Key(t2g.table[i]) : i \in DOMAIN t2g.table}

\* C4 (as claimed): every (iso3, year) with a pct_gdp row appears exactly once in
\* the tax-to-GDP output, and no other appears.
C4_EveryGroupOnce ==
    t2g.status = "ok" =>
        /\ T2gKeys = Keys(pct)
        /\ Len(t2g.table) = Cardinality(Keys(pct))

\* C4 (amended): the output has at most one row per (iso3, year); the groups in it
\* are those with a total row when the input has any total row, and otherwise
\* those with a row.
C4_OneRowPerReportedGroup ==
    t2g.status = "ok" =>
        /\ Len(t2g.table) = Cardinality(T2gKeys)
        /\ T2gKeys = IF Totals(pct) # <<>> THEN Keys(Totals(pct)) ELSE Keys(pct)

\* one group has two total rows, another has category rows only
C4_Witness ==
    /\ t2g.status = "ok"
    /\ \E k \in Keys(Totals(pct)) : Len(SortedTotals(k)) = 2
    /\ \E k \in Keys(pct) : k \notin Keys(Totals(pct))
    /\ Len(t2g.table) = 1

\* C5: the unit correction is all or nothing: when the median of the uncorrected
\* values is below 1.0 every output value is 100 times its uncorrected value,
\* otherwise every output value is its uncorrected value.
C5_CorrectionAllOrNothing ==
    t2g.status = "ok" =>
        LET unc == T2gUncorrected(pct)
            m2  == Median2([i \in DOMAIN unc |-> unc[i].tax_to_gdp])
        IN  /\ Len(t2g.table) = Len(unc)
            /\ \/ /\ ~IsNaN(m2) /\ m2 < 2 * One
                  /\ \A i \in DOMAIN unc :
                        t2g.table[i].tax_to_gdp =
                            IF IsNaN(unc[i].tax_to_gdp) THEN NaN
                            ELSE 100 * unc[i].tax_to_gdp
               \/ /\ ~(~IsNaN(m2) /\ m2 < 2 * One)
                  /\ \A i \in DOMAIN unc :
                        t2g.table[i].tax_to_gdp = unc[i].tax_to_gdp

\* the correction fired over three groups of which one was already a percent
C5_Witness ==
    /\ t2g.status = "ok"
    /\ Len(t2g.table) = 3
    /\ \E i \in DOMAIN t2g.table : t2g.table[i].tax_to_gdp = 6000 * UnitFactor
    /\ \E i \in DOMAIN t2g.table : t2g.table[i].tax_to_gdp = 40 * UnitFactor

\* C6: a group whose category values are all 0 contributes no row to the
\* composition output and causes no error and no NaN row, whatever the other
\* groups are; when every group is zero-sum the result is an empty table with
\* the columns iso3, year, tax_code, share_pct.
C6_ZeroSumGroupsDropped ==
    (comp.status # "none" /\ Cats(pct) # <<>>) =>
        /\ comp.status = "ok"
        /\ comp.columns = <<"iso3", "year", "tax_code", "share_pct">>
        /\ \A i \in DOMAIN comp.table : ~IsNaN(comp.table[i].share_pct)
        /\ \A k \in CatKeys(pct) :
              ZeroSumGroup(pct, k) => GroupRows(comp.table, k) = <<>>
        /\ (\A k \in CatKeys(pct) : ZeroSumGroup(pct, k)) => comp.table = <<>>

\* a zero-sum group (a 0.0 and a missing value) beside a group with shares
C6_Witness ==
    /\ comp.status = "ok"
    /\ comp.table # <<>>
    /\ \E k \in CatKeys(pct) :
          /\ ZeroSumGroup(pct, k)
          /\ \E i, j \in DOMAIN pct :
                /\ Key(pct[i]) = k /\ Key(pct[j]) = k
                /\ pct[i].value = 0 /\ IsNaN(pct[j].value)

---------------------------------------------------------------------------
(* Properties of normalize                                                 *)

\* the silver rows that stem from the raw row labelled l
SilverRowsOf(l) == {i \in DOMAIN silver.table : silver.table[i].raw_idx = l}

RawLabels == 0..(Len(raw.rows) - 1)

\* the lower-cased text of one optional field of a raw row, "" without the column
OwnText(r, col) == IF col = None THEN "" ELSE Lower(IF r[col] = "" THEN "nan" ELSE r[col])

\* the PercentOfGDP and ShareOfTotal conditions on a raw row's own fields
OwnIsGdp(r, res) ==
    \/ CodeIsGdp(OwnText(r, res.meas_code))
    \/ CodeIsGdp(OwnText(r, res.unit_code))
    \/ LabelIsGdp(Strip(OwnText(r, res.meas_lab) \o " " \o OwnText(r, res.unit_lab)))

OwnIsShare(r, res) ==
    \/ CodeIsShare(OwnText(r, res.meas_code))
    \/ CodeIsShare(OwnText(r, res.unit_code))
    \/ LabelIsShare(Strip(OwnText(r, res.meas_lab) \o " " \o OwnText(r, res.unit_lab)))

\* C7: each raw observation row yields at most one canonical row, with exactly
\* one metric: a row satisfying both the PercentOfGDP and the ShareOfTotal
\* conditions appears once, as pct_gdp, and a row satisfying neither does not
\* appear.
C7_AtMostOneCanonicalRow ==
    silver.status = "ok" =>
        \A l \in RawLabels :
            LET r   == raw.rows[l + 1]
                res == Resolved[raw.columns]
            IN  /\ Cardinality(SilverRowsOf(l)) <= 1
                /\ \A i \in SilverRowsOf(l) :
                      \/ silver.table[i].metric = "pct_gdp" /\ OwnIsGdp(r, res)
                      \/ /\ silver.table[i].metric = "share_total"
                         /\ OwnIsShare(r, res) /\ ~OwnIsGdp(r, res)

\* C8: in every emitted canonical table no two rows share the same iso3, year,
\* tax_code and metric.
C8_TupleUnique ==
    silver.status = "ok" =>
        \A i, j \in DOMAIN silver.table :
            i # j =>
                <<silver.table[i].iso3, silver.table[i].year,
                  silver.table[i].tax_code, silver.table[i].metric>> #
                <<silver.table[j].iso3, silver.table[j].year,
                  silver.table[j].tax_code, silver.table[j].metric>>

Findable(cols, cands) ==
    \E i \in DOMAIN cands : \E j \in DOMAIN cols :
        Contains(Lower(cols[j]), Lower(cands[i]))

\* the required fields that no column of the header can stand for, in the order
\* area, revenue_code, time, value
Unresolved ==
    [cols \in Headers |->
        SelectSeq(<<"area", "revenue_code", "time", "value">>,
                  LAMBDA n :
                      \/ n = "area" /\ ~Findable(cols, AreaCodeCands)
                                    /\ ~Findable(cols, AreaNameCands)
                      \/ n = "revenue_code" /\ ~Findable(cols, RevCodeCands)
                      \/ n = "time" /\ ~Findable(cols, TimeCands)
                      \/ n = "value" /\ ~Findable(cols, ValueCands))]

\* C10: normalize fails with the missing-column error exactly when a required
\* field (area, revenue code, year, value) cannot be resolved, the area counting
\* as resolved when the area-code or the area-name column is found; the error
\* names every unresolved field and the observed columns, and no table is made.
C10_MissingColumnError ==
    silver.status # "none" =>
        /\ silver.error = "KeyError" <=> Unresolved[raw.columns] # <<>>
        /\ silver.error = "KeyError" =>
              /\ silver.missing = Unresolved[raw.columns]
              /\ silver.have = raw.columns
              /\ silver.table = <<>>

\* the error named two fields at once, for a frame that has rows and whose area
\* is resolved through the area name alone
C10_Witness ==
    /\ silver.error = "KeyError"
    /\ Len(silver.missing) >= 2
    /\ silver.missing[1] # "area"
    /\ raw.rows # <<>>
    /\ \E j \in DOMAIN raw.columns : raw.columns[j] = "Country_name"
    /\ \A j \in DOMAIN raw.columns : raw.columns[j] # "REF_AREA"

\* the raw row labelled l passes the year filter of line 97
YearKept(l) ==
    LET col == Keep(Resolved[raw.columns]).year
    IN  IsYear(YearStr(YearDtype(raw.rows, col), raw.rows[l + 1][col]))

\* the raw row labelled l is in the silver table with the metric m
EmittedAs(l, m) == \E i \in SilverRowsOf(l) : silver.table[i].metric = m

\* C19: the metric normalize assigns to a row depends only on that row's own
\* code and label fields, whatever rows the year filter removed and whichever
\* optional columns are absent: a row that passes the year filter and is not
\* dropped for a negative value is emitted as pct_gdp exactly when its own
\* fields satisfy the PercentOfGDP conditions, and as share_total exactly when
\* they satisfy the ShareOfTotal conditions.
C19_OwnFieldsDecide ==
    silver.status = "ok" =>
        \A l \in RawLabels :
            LET r   == raw.rows[l + 1]
                res == Resolved[raw.columns]
            IN  (YearKept(l) /\ ~IsNeg(r[Keep(res).value])) =>
                    /\ EmittedAs(l, "pct_gdp") <=> OwnIsGdp(r, res)
                    /\ EmittedAs(l, "share_total") <=> OwnIsShare(r, res)

---------------------------------------------------------------------------
(* Further properties of the gold derivers                                 *)

\* C11: a deriver whose filtered subset has no rows raises and returns no table:
\* tax_to_gdp_from_pct_or_total on a frame without rows, composition_from_pct on
\* a frame without category rows.
C11_EmptySubsetRaises ==
    /\ (t2g.status # "none" /\ pct = <<>>) =>
           /\ t2g.status = "error"
           /\ t2g.error = "No pct_gdp rows in silver"
           /\ t2g.table = <<>>
    /\ (comp.status # "none" /\ Cats(pct) = <<>>) =>
           /\ comp.status = "error"
           /\ comp.error = "No category-level pct_gdp rows to derive composition"
           /\ comp.table = <<>>

\* a frame of total rows only: the composition raised where tax-to-GDP returned
C11_Witness ==
    /\ pct # <<>>
    /\ Cats(pct) = <<>>
    /\ comp.status = "error"
    /\ t2g.status = "ok"

\* C12: neither deriver modifies the frame it is given: every call leaves pct as
\* it was, so whichever deriver runs first, each output is the output of that
\* deriver run alone over the frame.
C12_InputUntouched ==
    [][/\ pct' = pct
       /\ t2g'.status # "none" => t2g' = tax_to_gdp_from_pct_or_total(pct)
       /\ comp'.status # "none" => comp' = composition_from_pct(pct)]_vars

\* both derivers ran over a frame with a missing category value, which the
\* composition fills with 0.0 in its own copy
C12_Witness ==
    /\ t2g.status = "ok"
    /\ comp.status = "ok"
    /\ comp.table # <<>>
    /\ \E i \in DOMAIN pct : IsNaN(pct[i].value) /\ ~IsTotalCode(pct[i].tax_code)

\* the values of the rows of group k that are not missing, added up row by row
RECURSIVE PlainSum(_, _)
PlainSum(rows, k) ==
    IF rows = <<>> THEN 0
    ELSE PlainSum(Tail(rows), k) +
         (IF Key(Head(rows)) = k /\ ~IsNaN(Head(rows).value) THEN Head(rows).value ELSE 0)

\* C14: when the frame holds no total row, the tax_to_gdp value of each group is
\* the sum of the group's category values, before the global unit correction
\* (a missing value adds nothing).
C14_CategorySum ==
    (t2g.status = "ok" /\ Totals(pct) = <<>>) =>
        \A k \in Keys(pct) :
            /\ Len(T2gRows(k)) = 1
            /\ T2gRows(k)[1].tax_to_gdp = AsReported(PlainSum(pct, k))

\* no total row; a group of the categories 0.4 and 60.0 is reported as 60.4
C14_Witness ==
    /\ t2g.status = "ok"
    /\ Totals(pct) = <<>>
    /\ \E i, j \in DOMAIN pct :
          /\ i # j /\ Key(pct[i]) = Key(pct[j])
          /\ pct[i].value = 40 /\ pct[j].value = 6000
          /\ T2gRows(Key(pct[i])) # <<>>
          /\ T2gRows(Key(pct[i]))[1].tax_to_gdp = 6040

\* a value with a missing one taken as 0.0 and a negative one clamped to 0.0
Clamped(v) == IF IsNaN(v) \/ v < 0 THEN 0 ELSE v

\* the clamped values of the category rows of group k, added up row by row
RECURSIVE ClampedSum(_, _)
ClampedSum(rows, k) ==
    IF rows = <<>> THEN 0
    ELSE ClampedSum(Tail(rows), k) +
         (IF Key(Head(rows)) = k /\ ~IsTotalCode(Head(rows).tax_code)
          THEN Clamped(Head(rows).value) ELSE 0)

\* the output rows that stem from the input row labelled l
CompRowsOf(l) == SelectSeq(comp.table, LAMBDA r : r.idx = l)

\* C15: every category row of a group with a positive sum yields exactly one
\* output row, whose share_pct is value / group_sum x 100 to within the rounding
\* precision (value with a missing one taken as 0 and a negative one clamped to
\* 0); no total row is emitted.
C15_ShareOfGroupSum ==
    comp.status = "ok" =>
        /\ \A i \in DOMAIN pct :
              LET r   == pct[i]
                  sum == ClampedSum(pct, Key(r))
              IN  (~IsTotalCode(r.tax_code) /\ sum > 0) =>
                      /\ Len(CompRowsOf(r.idx)) = 1
                      /\ CompRowsOf(r.idx)[1].tax_code = r.tax_code
                      /\ Abs(CompRowsOf(r.idx)[1].share_pct * sum
                                - Clamped(r.value) * Hundred) < RoundGrid * sum
        /\ \A j \in DOMAIN comp.table : ~IsTotalCode(comp.table[j].tax_code)

\* a group of a negative category, emitted with the share 0.0, and two positive
\* categories of different size
C15_Witness ==
    /\ comp.status = "ok"
    /\ Len(comp.table) = 3
    /\ \E i \in DOMAIN pct :
          /\ pct[i].value = -One
          /\ CompRowsOf(pct[i].idx) # <<>>
          /\ CompRowsOf(pct[i].idx)[1].share_pct = 0
    /\ \E j \in DOMAIN comp.table :
          comp.table[j].share_pct > 0 /\ comp.table[j].share_pct < Hundred \div 2

\* the share_pct values of the rows of group k, added up row by row
RECURSIVE PlainShareSum(_, _)
PlainShareSum(rows, k) ==
    IF rows = <<>> THEN 0
    ELSE PlainShareSum(Tail(rows), k) +
         (IF Key(Head(rows)) = k THEN Head(rows).share_pct ELSE 0)

\* the frame comp as it stands before step 5 (lines 60-89)
BeforeFix(p) == Renormalize(ClipFill(Compose(DropZeroSum(Numeric(Cats(p))))))

\* the rows of group k whose share_pct step 5 changed
ChangedByFix(k) ==
    {i \in DOMAIN comp.table :
        /\ Key(comp.table[i]) = k
        /\ comp.table[i].share_pct # BeforeFix(pct)[i].share_pct}

\* C18: the residual fix changes at most one row per group: the whole residual
\* 100 - sum(share_pct) is added to the first row holding the group's maximum
\* share_pct and every other row keeps its share_pct.
C18_ResidualOnOneRow ==
    (comp.status = "ok" /\ comp.table # <<>>) =>
        LET pre == BeforeFix(pct)
        IN  /\ Len(comp.table) = Len(pre)
            /\ \A k \in Keys(pre) :
                  /\ Cardinality(ChangedByFix(k)) <= 1
                  /\ \A i \in ChangedByFix(k) :
                        /\ comp.table[i].share_pct =
                              pre[i].share_pct + Hundred - PlainShareSum(pre, k)
                        /\ \A j \in DOMAIN pre :
                              Key(pre[j]) = k =>
                                  /\ pre[j].share_pct <= pre[i].share_pct
                                  /\ j < i => pre[j].share_pct < pre[i].share_pct
                  /\ ChangedByFix(k) = {} => PlainShareSum(pre, k) = Hundred

\* three equal categories: 33.33 each before the fix, the first raised to 33.34
C18_Witness ==
    /\ comp.status = "ok"
    /\ Len(comp.table) = 3
    /\ \A i \in DOMAIN comp.table : BeforeFix(pct)[i].share_pct = 3333
    /\ comp.table[1].share_pct = 3334
    /\ comp.table[2].share_pct = 3333

---------------------------------------------------------------------------
(* Properties of the sample pipeline                                       *)

\* C13: for every frame that to_silver's schema accepts, build_composition
\* returns without an assertion failure and the share_pct values of each
\* (country, iso3, year) group sum to 100.0 when rounded to 3 decimals.
C13_BuildCompositionSums ==
    (shares.status # "none" /\ SilverSchema(tax)) =>
        /\ shares.status = "ok"
        /\ \A i \in DOMAIN shares.table :
              ShareCheck(shares.table, shares.table[i]) = Hundred

---------------------------------------------------------------------------
(* Properties of pick_col and _sanitize                                    *)

\* the candidates that equal a column name, and those a column name contains,
\* case-insensitively
ExactCands ==
    {i \in DOMAIN arg.cands :
        \E j \in DOMAIN arg.cols : Lower(arg.cols[j]) = Lower(arg.cands[i])}
PartCands ==
    {i \in DOMAIN arg.cands :
        \E j \in DOMAIN arg.cols : Contains(Lower(arg.cols[j]), Lower(arg.cands[i]))}

IsColumn(c) == \E j \in DOMAIN arg.cols : arg.cols[j] = c

\* C16: pick_col returns a column whose name equals, case-insensitively, the
\* earliest candidate that has an exact match, in preference to any substring
\* match; only when no candidate matches exactly, a column whose name contains
\* the earliest substring-matching candidate; None when nothing matches.  It
\* never raises.
C16_ExactBeforeSubstring ==
    ret.status # "none" =>
        /\ ret.status = "ok"
        /\ IF ExactCands # {}
           THEN /\ IsColumn(ret.value)
                /\ Lower(ret.value) = Lower(arg.cands[Min(ExactCands)])
           ELSE IF PartCands # {}
           THEN /\ IsColumn(ret.value)
                /\ Contains(Lower(ret.value), Lower(arg.cands[Min(PartCands)]))
           ELSE ret.value = None

\* the first candidate is contained in a column name, a later one equals another
\* column name, and the latter column is returned
C16_Witness ==
    /\ ret.status = "ok"
    /\ ExactCands # {}
    /\ 1 \in PartCands \ ExactCands
    /\ ~Contains(Lower(ret.value), Lower(arg.cands[1]))

\* the rows of the frame _sanitize returned that carry the label l
SanitizedRowsOf(l) == SelectSeq(ret.value.df, LAMBDA r : r.idx = l)

\* how many rows of the argument have a value in the set S
CountIn(S) == Cardinality({i \in DOMAIN arg : arg[i].value \in S})

\* C17: _sanitize partitions its rows by value: a row below -0.005 is removed
\* and counted as dropped, a row in [-0.005, 0) is kept with the value 0.0 and
\* counted as tiny-clamped, any other row is kept unchanged; the output has
\* input minus dropped rows and no negative value.
C17_SanitizePartition ==
    ret.status # "none" =>
        LET out == ret.value
        IN  /\ \A i \in DOMAIN arg :
                  LET v == arg[i].value
                      o == SanitizedRowsOf(arg[i].idx)
                  IN  IF ~IsNaN(v) /\ v < -5 THEN o = <<>>
                      ELSE IF ~IsNaN(v) /\ v < 0 THEN Len(o) = 1 /\ o[1].value = 0
                      ELSE Len(o) = 1 /\ o[1].value = v
            /\ out.dropped = CountIn({x \in SanitizeValues : ~IsNaN(x) /\ x < -5})
            /\ out.tiny = CountIn({x \in SanitizeValues : ~IsNaN(x) /\ -5 <= x /\ x < 0})
            /\ Len(out.df) = Len(arg) - out.dropped
            /\ \A j \in DOMAIN out.df : IsNaN(out.df[j].value) \/ out.df[j].value >= 0

\* a frame with a value just below the threshold, the threshold itself and a
\* value above it
C17_Witness ==
    /\ ret.status = "ok"
    /\ ret.value.dropped = 1
    /\ ret.value.tiny = 1
    /\ Len(ret.value.df) = 2
    /\ \E i \in DOMAIN arg : arg[i].value = -5
    /\ \E i \in DOMAIN arg : arg[i].value = -6

=============================================================================
